---- MODULE Spec2Model ----
(***************************************************************************)
(* flickr2blog.py: the staged migration of Flickr images into a WordPress  *)
(* blog.  Every subcommand is one run of the program: it reads a catalog   *)
(* file, works on it in memory and (for some stages) writes a catalog.     *)
(*                                                                         *)
(* Text is a sequence of one-character strings with Python's 0-based       *)
(* offsets.  The literal parts of the two URL patterns are scaled down to  *)
(* single tokens so that bodies stay short:                                *)
(*   "P"  stands for  https?://(?:www\.)?flickr\.com/photos/quentinsf/     *)
(*   "F"  stands for  https?://(?:farm\d+\.)?static\.?flickr\.com/\d+/     *)
(*   "J"  stands for  \.jpg                                                *)
(*   a digit token stands for the whole run of digits of a photo id.       *)
(* The attribute prefixes href=" and src=" are spelled out character by    *)
(* character, because update_posts inspects them by character count.       *)
(***************************************************************************)
EXTENDS Integers, Sequences, FiniteSets, TLC

VARIABLES
    post_catalog,   \* posts.json: the list of post records
    image_catalog,  \* images.json: the list of photo records
    download_dir,   \* the file names present in settings.download_dir
    run             \* the locals and the remote calls of the latest run

vars == <<post_catalog, image_catalog, download_dir, run>>

----------------------------------------------------------------------------
(* Bounds of the model *)

MaxPosts == 2
MaxLinks == 2

----------------------------------------------------------------------------
(* Python built-ins *)

Quote == "\""
Digits == {"1", "2"}

\* A slice index i against a sequence of length n, as Python clamps it.
ClampIndex(i, n) ==
    IF i < 0 THEN (IF i + n < 0 THEN 0 ELSE i + n)
    ELSE IF i > n THEN n ELSE i

\* s[lo:hi] with Python's semantics (negative indices count from the end).
PySlice(s, lo, hi) ==
    LET a == ClampIndex(lo, Len(s))
        b == ClampIndex(hi, Len(s))
    IN  IF a >= b THEN <<>> ELSE SubSeq(s, a + 1, b)

\* d[k] = v on a dict: the key is added when it is absent.
SetKey(d, k, v) ==
    [x \in (DOMAIN d) \cup {k} |-> IF x = k THEN v ELSE d[x]]

\* Python's None where a file name is expected.
None == <<>>

\* f"{flickr_id}.jpg", f"{flickr_id}_800.jpg", ...: the id followed by the suffix.
FileName(flickr_id, suffix) == <<flickr_id, suffix>>

----------------------------------------------------------------------------
(* process_posts: the two patterns and the references they yield *)

ImgInfo(flickr_id, content, start, end) ==
    [flickr_id |-> flickr_id,
     url       |-> PySlice(content, start, end),
     url_start |-> start,
     url_end   |-> end]

\* flickr_photo_re.finditer(content) from offset i:  (P(\d)/?)[/"]
RECURSIVE PhotoMatches(_, _)
PhotoMatches(content, i) ==
    LET n == Len(content)
        At(k) == content[k + 1]      \* content[k], 0-based
        j == i + 2                   \* offset just after the digits
    IN  IF i >= n THEN <<>>
        ELSE IF At(i) = "P" /\ i + 1 < n /\ At(i + 1) \in Digits
             THEN IF j + 1 < n /\ At(j) = "/" /\ At(j + 1) \in {"/", Quote}
                  THEN <<ImgInfo(At(i + 1), content, i, j + 1)>>
                           \o PhotoMatches(content, j + 2)
                  ELSE IF j < n /\ At(j) \in {"/", Quote}
                  THEN <<ImgInfo(At(i + 1), content, i, j)>>
                           \o PhotoMatches(content, j + 1)
                  ELSE PhotoMatches(content, i + 1)
        ELSE PhotoMatches(content, i + 1)

\* The offset of the first double quote at or after offset k, or -1.
RECURSIVE FirstQuote(_, _)
FirstQuote(content, k) ==
    IF k >= Len(content) THEN -1
    ELSE IF content[k + 1] = Quote THEN k
    ELSE FirstQuote(content, k + 1)

\* flickr_farm_photo_re.finditer(content) from offset i:  (F(\d)_[^"]*J)"
RECURSIVE FarmMatches(_, _)
FarmMatches(content, i) ==
    LET n == Len(content)
        At(k) == content[k + 1]
        q == FirstQuote(content, i + 3)
    IN  IF i >= n THEN <<>>
        ELSE IF At(i) = "F" /\ i + 2 < n /\ At(i + 1) \in Digits /\ At(i + 2) = "_"
                /\ q >= i + 4 /\ At(q - 1) = "J"
             THEN <<ImgInfo(At(i + 1), content, i, q)>> \o FarmMatches(content, q + 1)
             ELSE FarmMatches(content, i + 1)

\* chain(flickr_photo_re.finditer(content), flickr_farm_photo_re.finditer(content))
FlickrImages(content) ==
    PhotoMatches(content, 0) \o FarmMatches(content, 0)

----------------------------------------------------------------------------
(* Shared by the stages *)

\* The slice one short of the limit.
LimitPostsOneShort(posts, limit) ==
    IF limit # 0 THEN PySlice(posts, 0, limit - 1) ELSE posts

\* posts = posts[:args.limit] when args.limit is truthy (0 stands for no --limit).
LimitPosts(posts, limit) ==
    IF limit # 0 THEN PySlice(posts, 0, limit) ELSE posts

\* The latest run's record; every stage fills the fields it has.
NoRun ==
    [cmd |-> "none", limit |-> 0, confirmation |-> "", excludes |-> {},
     already_uploaded |-> <<>>, aborted |-> FALSE, error |-> "", file |-> None,
     posts |-> <<>>, uploaded |-> <<>>, updates |-> <<>>]

----------------------------------------------------------------------------
(* update_posts *)

\* The sort without reverse=True: ascending by url_start.
RECURSIVE InsertAsc(_, _)
InsertAsc(x, s) ==
    IF s = <<>> THEN <<x>>
    ELSE IF Head(s).url_start <= x.url_start
         THEN <<Head(s)>> \o InsertAsc(x, Tail(s))
         ELSE <<x>> \o s

RECURSIVE SortedImagesAscending(_)
SortedImagesAscending(imgs) ==
    IF imgs = <<>> THEN <<>>
    ELSE InsertAsc(imgs[Len(imgs)],
                   SortedImagesAscending(SubSeq(imgs, 1, Len(imgs) - 1)))

\* sorted(post['flickr_images'], key=lambda x: x['url_start'], reverse=True):
\* a stable sort, descending by url_start.
RECURSIVE InsertDesc(_, _)
InsertDesc(x, s) ==
    IF s = <<>> THEN <<x>>
    ELSE IF Head(s).url_start >= x.url_start
         THEN <<Head(s)>> \o InsertDesc(x, Tail(s))
         ELSE <<x>> \o s

RECURSIVE SortedImages(_)
SortedImages(imgs) ==
    IF imgs = <<>> THEN <<>>
    ELSE InsertDesc(imgs[Len(imgs)], SortedImages(SubSeq(imgs, 1, Len(imgs) - 1)))

Href == <<"h", "r", "e", "f", "=", Quote>>
Src  == <<"s", "r", "c", "=", Quote>>

\* post['upload_info'][fid] raises no KeyError.
HasUploadInfo(post, fid) ==
    /\ "upload_info" \in DOMAIN post
    /\ fid \in DOMAIN post.upload_info

\* The href test reading five characters instead of six: it never matches.
NewUrlShortHrefTest(content, post, img) ==
    IF PySlice(content, img.url_start - 5, img.url_start) = Href
    THEN post.upload_info[img.flickr_id].original_url
    ELSE post.upload_info[img.flickr_id].medium_url

\* The URL the try block picks for one reference (lines 307-315).
NewUrl(content, post, img) ==
    IF PySlice(content, img.url_start - 6, img.url_start) = Href
    THEN post.upload_info[img.flickr_id].original_url
    ELSE IF PySlice(content, img.url_start - 5, img.url_start) = Src
    THEN post.upload_info[img.flickr_id].medium_url
    ELSE post.upload_info[img.flickr_id].medium_url

\* One pass of the loop body over img: the splice, or the caught KeyError.
SpliceOne(content, new_content, post, img) ==
    IF HasUploadInfo(post, img.flickr_id)
    THEN PySlice(new_content, 0, img.url_start)
             \o NewUrl(content, post, img)
             \o PySlice(new_content, img.url_end, Len(new_content))
    ELSE new_content

\* The try block around the whole loop: the first KeyError ends the post.
RECURSIVE SpliceAllUntilKeyError(_, _, _, _)
SpliceAllUntilKeyError(content, new_content, post, imgs) ==
    IF imgs = <<>> THEN new_content
    ELSE IF ~HasUploadInfo(post, Head(imgs).flickr_id) THEN new_content
    ELSE SpliceAllUntilKeyError(content,
                                SpliceOne(content, new_content, post, Head(imgs)),
                                post, Tail(imgs))

RECURSIVE SpliceAll(_, _, _, _)
SpliceAll(content, new_content, post, imgs) ==
    IF imgs = <<>> THEN new_content
    ELSE SpliceAll(content, SpliceOne(content, new_content, post, Head(imgs)),
                   post, Tail(imgs))

\* new_content of one post after the inner loop.
RewrittenContent(post) ==
    SpliceAll(post.content, post.content, post, SortedImages(post.flickr_images))

\* The push without the comparison.
NeedsUpdateAlways(content, new_content) == TRUE

\* if new_content != content: the post is updated in memory and pushed.
NeedsUpdate(content, new_content) == new_content # content

\* The index of the first post whose 'flickr_images' key is missing (the
\* uncaught KeyError of line 299), or Len(posts) + 1.
RECURSIVE FirstWithoutImages(_, _)
FirstWithoutImages(posts, i) ==
    IF i > Len(posts) THEN i
    ELSE IF "flickr_images" \notin DOMAIN posts[i] THEN i
    ELSE FirstWithoutImages(posts, i + 1)

\* The wp.post calls of the posts 1..k, in order.
RECURSIVE UpdateCalls(_, _)
UpdateCalls(posts, k) ==
    IF k = 0 THEN <<>>
    ELSE LET new_content == RewrittenContent(posts[k])
         IN  UpdateCalls(posts, k - 1) \o
             (IF NeedsUpdate(posts[k].content, new_content)
              THEN <<[id |-> posts[k].id, content |-> new_content]>>
              ELSE <<>>)

\* A gate that ignores case.
ConfirmedAnyCase(confirmation) == confirmation \in {"YES", "yes"}

\* The confirmation gate of lines 286-288.
Confirmed(confirmation) == confirmation = "YES"

UpdatePosts(confirmation, limit) ==
    LET posts == LimitPosts(post_catalog, limit)
        stop  == FirstWithoutImages(posts, 1)
        done  == stop - 1
    IN  /\ run' = IF ~Confirmed(confirmation)
                  THEN [NoRun EXCEPT !.cmd = "update_posts", !.limit = limit,
                                     !.confirmation = confirmation, !.posts = posts]
                  ELSE [NoRun EXCEPT
                          !.cmd = "update_posts", !.limit = limit,
                          !.confirmation = confirmation,
                          !.aborted = (stop <= Len(posts)),
                          !.error = IF stop <= Len(posts) THEN "KeyError" ELSE "",
                          !.posts = [i \in DOMAIN posts |->
                                       IF i <= done
                                       THEN [posts[i] EXCEPT
                                               !.content = RewrittenContent(posts[i])]
                                       ELSE posts[i]],
                          !.updates = UpdateCalls(posts, done)]
        /\ UNCHANGED <<post_catalog, image_catalog, download_dir>>

----------------------------------------------------------------------------
(* process_posts *)

ProcessPosts ==
    LET posts == [i \in DOMAIN post_catalog |->
                    SetKey(post_catalog[i], "flickr_images",
                           FlickrImages(post_catalog[i].content))]
    IN  /\ post_catalog' = posts
        /\ run' = [NoRun EXCEPT !.cmd = "process_posts", !.posts = posts]
        /\ UNCHANGED <<image_catalog, download_dir>>

----------------------------------------------------------------------------
(* catalog_images *)

\* The photo records of one post: a reference Flickr answers with an error
\* for is skipped (the caught FlickrError).
RECURSIVE PhotosOf(_, _)
PhotosOf(imgs, flickr) ==
    IF imgs = <<>> THEN <<>>
    ELSE (IF flickr[Head(imgs).flickr_id].error THEN <<>>
          ELSE <<[id |-> Head(imgs).flickr_id,
                  sizes |-> flickr[Head(imgs).flickr_id].sizes]>>)
         \o PhotosOf(Tail(imgs), flickr)

RECURSIVE PhotosOfPosts(_, _)
PhotosOfPosts(posts, flickr) ==
    IF posts = <<>> THEN <<>>
    ELSE PhotosOf(Head(posts).flickr_images, flickr)
             \o PhotosOfPosts(Tail(posts), flickr)

\* flickr: what getInfo/getSizes answer for each photo id, the size labels or
\* an error.  A post without 'flickr_images' ends the run before any write.
CatalogImages(flickr) ==
    LET stop == FirstWithoutImages(post_catalog, 1)
    IN  IF stop <= Len(post_catalog)
        THEN /\ run' = [NoRun EXCEPT !.cmd = "catalog_images", !.aborted = TRUE,
                                     !.error = "KeyError", !.posts = post_catalog]
             /\ UNCHANGED <<post_catalog, image_catalog, download_dir>>
        ELSE /\ image_catalog' = PhotosOfPosts(post_catalog, flickr)
             /\ run' = [NoRun EXCEPT !.cmd = "catalog_images", !.posts = post_catalog]
             /\ UNCHANGED <<post_catalog, download_dir>>

----------------------------------------------------------------------------
(* download_images *)

\* download_photo's file names: (original_file, smaller_file).
DownloadPhoto(flickr_id, sizes) ==
    <<FileName(flickr_id, ".jpg"),
      IF "Medium 800" \in sizes THEN FileName(flickr_id, "_800.jpg")
      ELSE IF "Medium 640" \in sizes THEN FileName(flickr_id, "_640.jpg")
      ELSE IF "Medium" \in sizes THEN FileName(flickr_id, "_medium.jpg")
      ELSE None>>

\* The files download_photo asks download_size for.
DownloadedFiles(photo) ==
    LET names == DownloadPhoto(photo.id, photo.sizes)
    IN  (IF names[2] # None THEN {names[2]} ELSE {})
        \cup (IF "Original" \in photo.sizes THEN {names[1]} ELSE {})

\* A file that exists is left alone, any other is written.
DownloadImages ==
    /\ download_dir' = download_dir \cup
           UNION {DownloadedFiles(image_catalog[i]) : i \in DOMAIN image_catalog}
    /\ run' = [NoRun EXCEPT !.cmd = "download_images"]
    /\ UNCHANGED <<post_catalog, image_catalog>>

----------------------------------------------------------------------------
(* upload_to_wp *)

\* The names upload_to_wp computes from the photo id (lines 254-255).
OriginalFile(flickr_id) == FileName(flickr_id, ".jpg")
MediumFile(flickr_id) == FileName(flickr_id, "_800.jpg")

\* The blog's answer to an upload, response_data['source_url']: one URL per file.
SourceUrl(photo_file) ==
    IF photo_file[2] = ".jpg" THEN <<"W", photo_file[1]>>
    ELSE <<"W", photo_file[1], "m">>

\* upload_media: open() fails on a missing file, the assert on a status
\* other than 201 (the fail_at-th call of the run); else the blog's URL.
UploadMedia(st, photo_file, post_id) ==
    IF photo_file \notin download_dir
    THEN [st EXCEPT !.aborted = TRUE, !.error = "FileNotFoundError",
                    !.file = photo_file]
    ELSE IF st.calls + 1 = st.fail_at
    THEN [st EXCEPT !.calls = @ + 1, !.aborted = TRUE, !.error = "AssertionError",
                    !.file = photo_file]
    ELSE [st EXCEPT !.calls = @ + 1,
                    !.uploaded = Append(@, [file |-> photo_file, post |-> post_id]),
                    !.url = SourceUrl(photo_file)]

\* The memo first, the upload otherwise (lines 256-265).
FileUrl(st, photo_file, post_id) ==
    IF photo_file \in DOMAIN st.already_uploaded
    THEN [st EXCEPT !.url = st.already_uploaded[photo_file]]
    ELSE UploadMedia(st, photo_file, post_id)

\* Whether the loop body runs for this post (no test on ignore_posts exists).
PostIsProcessed(post, ignore_posts) == TRUE

\* The loop without its skip check.
AlreadyRecordedNever(post, flickr_id) == FALSE

\* The per-image skip check of line 245.
AlreadyRecorded(post, flickr_id) == flickr_id \in DOMAIN post.upload_info

\* The body of the inner loop for post i and one reference.
UploadImage(st, i, img) ==
    LET post == st.posts[i]
        s1 == FileUrl(st, OriginalFile(img.flickr_id), post.id)
        s2 == FileUrl(s1, MediumFile(img.flickr_id), post.id)
    IN  IF st.aborted THEN st
        ELSE IF AlreadyRecorded(post, img.flickr_id) THEN st
        ELSE IF s1.aborted THEN s1
        ELSE IF s2.aborted THEN s2
        ELSE [s2 EXCEPT !.posts[i].upload_info =
                  SetKey(@, img.flickr_id,
                         [original_url |-> s1.url, medium_url |-> s2.url])]

RECURSIVE UploadImages(_, _, _)
UploadImages(st, i, imgs) ==
    IF imgs = <<>> THEN st
    ELSE UploadImages(UploadImage(st, i, Head(imgs)), i, Tail(imgs))

\* The body of the outer loop for post i.
UploadPost(st, i) ==
    LET post == st.posts[i]
        s0 == IF "upload_info" \in DOMAIN post THEN st
              ELSE [st EXCEPT !.posts[i] = SetKey(post, "upload_info", <<>>)]
    IN  IF st.aborted \/ ~PostIsProcessed(post, st.ignore_posts) THEN st
        ELSE IF "flickr_images" \notin DOMAIN post
        THEN [s0 EXCEPT !.aborted = TRUE, !.error = "KeyError"]
        ELSE UploadImages(s0, i, post.flickr_images)

RECURSIVE UploadPosts(_, _)
UploadPosts(st, i) ==
    IF i > Len(st.posts) THEN st
    ELSE UploadPosts(UploadPost(st, i), i + 1)

\* One run with the default catalog paths (post_catalog and new_post_catalog
\* are the same file): the catalog is written once, after the last post.
UploadToWp(limit, excludes, already_uploaded, fail_at) ==
    LET st == UploadPosts(
                  [posts |-> LimitPosts(post_catalog, limit),
                   ignore_posts |-> excludes,
                   already_uploaded |-> already_uploaded,
                   fail_at |-> fail_at, calls |-> 0, uploaded |-> <<>>,
                   aborted |-> FALSE, error |-> "", file |-> None, url |-> <<>>], 1)
    IN  /\ run' = [NoRun EXCEPT
                     !.cmd = "upload_to_wp", !.limit = limit,
                     !.excludes = excludes, !.already_uploaded = already_uploaded,
                     !.aborted = st.aborted, !.error = st.error, !.file = st.file,
                     !.posts = st.posts, !.uploaded = st.uploaded]
        /\ post_catalog' = IF st.aborted THEN post_catalog ELSE st.posts
        /\ UNCHANGED <<image_catalog, download_dir>>

----------------------------------------------------------------------------
(* The catalogs the runs start from *)

PagePhotoUrl == <<"P", "1">>
FarmPhotoUrl == <<"F", "2", "_", "J">>

\* The links of the bodies the rewrite is studied on: a page URL after
\* href=" or after src=", a farm URL after src=" or after no attribute.
RewriteLinks ==
    {Href \o PagePhotoUrl \o <<Quote>>, Src \o PagePhotoUrl \o <<Quote>>,
     Src \o FarmPhotoUrl \o <<Quote>>, FarmPhotoUrl \o <<Quote>>}

\* The links of the bodies the other stages are studied on: one per photo.
StageLinks ==
    {Href \o PagePhotoUrl \o <<Quote>>, Src \o FarmPhotoUrl \o <<Quote>>}

\* The rendered bodies holding k links; a body without links only mentions Flickr.
RECURSIVE BodiesWith(_, _)
BodiesWith(k, links) ==
    IF k = 0 THEN {<<"x">>}
    ELSE IF k = 1 THEN links
    ELSE {b \o l : b \in BodiesWith(k - 1, links), l \in links}

\* The lists of n bodies holding at most budget links together.
RECURSIVE BodyLists(_, _, _)
BodyLists(n, budget, links) ==
    IF n = 0 THEN {<<>>}
    ELSE UNION {{<<b>> \o rest : b \in BodiesWith(k, links),
                                 rest \in BodyLists(n - 1, budget - k, links)} :
                k \in 0..budget}

\* What catalog_posts writes: the posts as the blog lists them.
DiscoveredCatalogs(links) ==
    {[i \in DOMAIN bodies |-> [id |-> 10 + i, content |-> bodies[i]]] :
        bodies \in UNION {BodyLists(n, MaxLinks, links) : n \in 1..MaxPosts}}

\* The orders a list of references is stored in: as process_posts found
\* them, or the other way round.
Orders(imgs) ==
    {imgs, [i \in DOMAIN imgs |-> imgs[Len(imgs) + 1 - i]]}

\* The upload_info entry upload_to_wp records after two uploads.
UploadedInfo(flickr_id) ==
    [original_url |-> SourceUrl(FileName(flickr_id, ".jpg")),
     medium_url   |-> SourceUrl(FileName(flickr_id, "_800.jpg"))]

\* An upload_info entry whose URLs are the URL the post already uses.
SameUrlInfo(imgs, flickr_id) ==
    LET img == imgs[CHOOSE i \in DOMAIN imgs : imgs[i].flickr_id = flickr_id]
    IN  [original_url |-> img.url, medium_url |-> img.url]

\* A processed post in the forms update_posts can find it in the catalog:
\* without upload_info, with entries for some of its photos, or with entries
\* that repeat the old URLs.
CatalogedPosts(post) ==
    LET imgs == FlickrImages(post.content)
        ids  == {imgs[i].flickr_id : i \in DOMAIN imgs}
        withImages == {SetKey(post, "flickr_images", o) : o \in Orders(imgs)}
    IN  withImages
        \cup {SetKey(p, "upload_info", [f \in D |-> UploadedInfo(f)]) :
                 p \in withImages, D \in SUBSET ids}
        \cup {SetKey(p, "upload_info", [f \in ids |-> SameUrlInfo(imgs, f)]) :
                 p \in {w \in withImages : ids # {}}}

RECURSIVE CatalogsFrom(_)
CatalogsFrom(posts) ==
    IF posts = <<>> THEN {<<>>}
    ELSE LET rests == CatalogsFrom(Tail(posts))
         IN  {<<p>> \o rest : p \in CatalogedPosts(Head(posts)), rest \in rests}

Confirmations == {"YES", "yes", ""}
Limits == 0..MaxPosts

----------------------------------------------------------------------------
(* The rewrite stage alone, on every catalog *)

InitRewrite ==
    /\ \E c \in DiscoveredCatalogs(RewriteLinks) : post_catalog \in CatalogsFrom(c)
    /\ image_catalog = <<>>
    /\ download_dir = {}
    /\ run = NoRun

\* One run of update_posts; it writes no catalog, so a second run would
\* start from the same catalog again.
NextRewrite ==
    \E confirmation \in Confirmations, limit \in Limits :
        run.cmd = "none" /\ UpdatePosts(confirmation, limit)

SpecRewrite == InitRewrite /\ [][NextRewrite]_vars

----------------------------------------------------------------------------
(* The stages that read and write the post catalog, run in any order and   *)
(* any number of times on a freshly discovered catalog                     *)

MaxFailAt == 2

\* The exclusion CSV: absent, or naming the first post.
Excludes == {{}, {11}}

\* The already-uploaded CSV: empty, or naming the medium file of photo 2.
Memos == {<<>>, [f \in {MediumFile("2")} |-> <<"M", "2">>]}

\* The download directory as download_images leaves it when Flickr offers
\* Medium 800 and Original for photo 1 and only Original for photo 2.
RetrievedFiles ==
    DownloadedFiles([id |-> "1", sizes |-> {"Medium 800", "Original"}])
        \cup DownloadedFiles([id |-> "2", sizes |-> {"Original"}])

Init ==
    /\ post_catalog \in DiscoveredCatalogs(StageLinks)
    /\ image_catalog = <<>>
    /\ download_dir = RetrievedFiles
    /\ run = NoRun

Next ==
    \/ ProcessPosts
    \/ \E limit \in Limits, excludes \in Excludes, already_uploaded \in Memos,
          fail_at \in 0..MaxFailAt :
            UploadToWp(limit, excludes, already_uploaded, fail_at)
    \/ \E confirmation \in Confirmations, limit \in Limits :
            UpdatePosts(confirmation, limit)

Spec == Init /\ [][Next]_vars

----------------------------------------------------------------------------
(* Retrieval and the upload that follows it, on a processed catalog *)

SizeLists ==
    {{"Medium 800", "Original"}, {"Medium 640", "Original"}, {"Medium", "Original"},
     {"Original"}}

FlickrAnswers ==
    [Digits -> {[error |-> FALSE, sizes |-> l] : l \in SizeLists}
                   \cup {[error |-> TRUE, sizes |-> {}]}]

InitRetrieval ==
    /\ \E c \in DiscoveredCatalogs(StageLinks) :
          post_catalog = [i \in DOMAIN c |->
                             SetKey(c[i], "flickr_images", FlickrImages(c[i].content))]
    /\ image_catalog = <<>>
    /\ download_dir = {}
    /\ run = NoRun

NextRetrieval ==
    \/ \E flickr \in FlickrAnswers : CatalogImages(flickr)
    \/ DownloadImages
    \/ \E already_uploaded \in Memos : UploadToWp(0, {}, already_uploaded, 0)

SpecRetrieval == InitRetrieval /\ [][NextRetrieval]_vars

----------------------------------------------------------------------------
(* What the properties of update_posts are stated with *)

\* The run was update_posts, got past the gate and went through its posts.
Rewrote ==
    /\ run.cmd = "update_posts"
    /\ run.confirmation = "YES"
    /\ ~run.aborted

\* The spans lie inside the body and no two of them overlap.
NonOverlapping(post) ==
    LET imgs == post.flickr_images
    IN  /\ \A a \in DOMAIN imgs :
              0 <= imgs[a].url_start /\ imgs[a].url_start < imgs[a].url_end
              /\ imgs[a].url_end <= Len(post.content)
        /\ \A a, b \in DOMAIN imgs :
              a # b => \/ imgs[a].url_end <= imgs[b].url_start
                       \/ imgs[b].url_end <= imgs[a].url_start

AllHaveInfo(post) ==
    \A a \in DOMAIN post.flickr_images :
        HasUploadInfo(post, post.flickr_images[a].flickr_id)

\* The characters of S just before offset k are exactly w.
PrecededBy(S, k, w) ==
    /\ k >= Len(w)
    /\ \A j \in 1..Len(w) : S[k - Len(w) + j] = w[j]

\* The URL the specification asks for: the original after href=", else the medium.
ExpectedUrl(post, img) ==
    IF PrecededBy(post.content, img.url_start, Href)
    THEN post.upload_info[img.flickr_id].original_url
    ELSE post.upload_info[img.flickr_id].medium_url

\* S rewritten in a single left-to-right pass from offset k: every span of
\* a reference with upload info gives way to its URL in urls (one URL per
\* stored reference), all else is copied.
RECURSIVE OnePassFrom(_, _, _)
OnePassFrom(post, k, urls) ==
    LET S == post.content
        imgs == post.flickr_images
        here == {a \in DOMAIN imgs :
                    imgs[a].url_start = k /\ HasUploadInfo(post, imgs[a].flickr_id)}
    IN  IF k >= Len(S) THEN <<>>
        ELSE IF here # {}
             THEN LET a == CHOOSE x \in here : TRUE
                  IN  urls[a] \o OnePassFrom(post, imgs[a].url_end, urls)
             ELSE <<S[k + 1]>> \o OnePassFrom(post, k + 1, urls)

\* The new URL of every reference that has upload info: as the code picks
\* it, and as the specification asks for it.
CodeUrls(post) ==
    [a \in DOMAIN post.flickr_images |->
        IF HasUploadInfo(post, post.flickr_images[a].flickr_id)
        THEN NewUrl(post.content, post, post.flickr_images[a]) ELSE <<>>]

ExpectedUrls(post) ==
    [a \in DOMAIN post.flickr_images |->
        IF HasUploadInfo(post, post.flickr_images[a].flickr_id)
        THEN ExpectedUrl(post, post.flickr_images[a]) ELSE <<>>]

\* How far the text at offset k of the body has moved in the rewritten body.
RECURSIVE ShiftBefore(_, _, _)
ShiftBefore(post, k, n) ==
    IF n = 0 THEN 0
    ELSE LET q == post.flickr_images[n]
         IN  ShiftBefore(post, k, n - 1) +
             (IF q.url_start < k /\ HasUploadInfo(post, q.flickr_id)
              THEN Len(ExpectedUrl(post, q)) - (q.url_end - q.url_start)
              ELSE 0)

\* The rewritten body holds text at the place the reference img has moved to.
HoldsAt(new_content, post, img, text) ==
    LET at == img.url_start + ShiftBefore(post, img.url_start, Len(post.flickr_images))
    IN  PySlice(new_content, at, at + Len(text)) = text

\* The number of update calls issued for the post id.
CallsFor(id) == Cardinality({k \in DOMAIN run.updates : run.updates[k].id = id})

----------------------------------------------------------------------------
(* C1: when the typed confirmation is anything but the exact string YES,   *)
(* update_posts issues no update call and changes no post body, whatever   *)
(* the catalog and the limit.                                              *)
C1_NoChangeWithoutConfirmation ==
    (run.cmd = "update_posts" /\ run.confirmation # "YES") =>
        /\ run.updates = <<>>
        /\ ~run.aborted
        /\ \A i \in DOMAIN run.posts : run.posts[i] = post_catalog[i]

\* A refused run on a catalog whose first post the rewrite would change.
C1_Witness ==
    /\ run.cmd = "update_posts"
    /\ run.confirmation = "yes"
    /\ run.posts # <<>>
    /\ RewrittenContent(post_catalog[1]) # post_catalog[1].content

(* C2: for non-overlapping spans that all have upload info, splicing in    *)
(* descending url_start order gives the body a single pass over the        *)
(* original offsets gives, whatever the URL lengths and the stored order.  *)
C2_DescendingSpliceIsOnePass ==
    Rewrote =>
        \A i \in DOMAIN run.posts :
            (NonOverlapping(post_catalog[i]) /\ AllHaveInfo(post_catalog[i])) =>
                run.posts[i].content = OnePassFrom(post_catalog[i], 0, CodeUrls(post_catalog[i]))

\* Two references stored in ascending order, replaced by URLs of other lengths.
C2_Witness ==
    /\ Rewrote
    /\ \E i \in DOMAIN run.posts :
          LET imgs == post_catalog[i].flickr_images
          IN  /\ Len(imgs) >= 2
              /\ AllHaveInfo(post_catalog[i])
              /\ imgs[1].url_start < imgs[2].url_start
              /\ Len(CodeUrls(post_catalog[i])[1]) # Len(imgs[1].url)
              /\ Len(run.posts[i].content) # Len(post_catalog[i].content)

(* C3: a reference with upload info is replaced by the original_url when   *)
(* the body has href=" right before it and by the medium_url otherwise     *)
(* (after src=", after anything else, or fewer than six characters in).    *)
C3_ContextPicksUrl ==
    Rewrote =>
        \A i \in DOMAIN run.posts :
            NonOverlapping(post_catalog[i]) =>
                \A a \in DOMAIN post_catalog[i].flickr_images :
                    LET post == post_catalog[i]
                        img  == post.flickr_images[a]
                    IN  HasUploadInfo(post, img.flickr_id) =>
                            HoldsAt(run.posts[i].content, post, img,
                                    ExpectedUrl(post, img))

\* One href link and one src link to the same photo: the first ends at the
\* original URL, the second at the medium URL.
C3_Witness ==
    /\ Rewrote
    /\ \E i \in DOMAIN run.posts :
          /\ post_catalog[i].content =
                 Href \o PagePhotoUrl \o <<Quote>> \o Src \o PagePhotoUrl \o <<Quote>>
          /\ run.posts[i].content =
                 Href \o <<"W", "1">> \o <<Quote>> \o Src \o <<"W", "1", "m">> \o <<Quote>>

(* C7: after confirmation every post gets exactly one update call, with    *)
(* its rewritten body, when that body differs from the catalog body, and   *)
(* no update call when it does not.                                        *)
C7_UpdateIffChanged ==
    Rewrote =>
        /\ \A i \in DOMAIN run.posts :
              IF run.posts[i].content # post_catalog[i].content
              THEN /\ CallsFor(run.posts[i].id) = 1
                   /\ \E k \in DOMAIN run.updates :
                         run.updates[k] = [id |-> run.posts[i].id,
                                           content |-> run.posts[i].content]
              ELSE CallsFor(run.posts[i].id) = 0
        /\ \A k \in DOMAIN run.updates :
              \E i \in DOMAIN run.posts : run.updates[k].id = run.posts[i].id

\* One post rewritten and pushed, another left alone although it has upload
\* info for its reference (the new URL is the old one).
C7_Witness ==
    /\ Rewrote
    /\ Len(run.updates) = 1
    /\ \E i, j \in DOMAIN run.posts :
          /\ run.posts[i].content # post_catalog[i].content
          /\ run.posts[j].content = post_catalog[j].content
          /\ post_catalog[j].flickr_images # <<>>
          /\ AllHaveInfo(post_catalog[j])

(* C9: a reference without upload info keeps its URL text, the references  *)
(* of the same post that have upload info are still replaced at their      *)
(* places, and the run goes on to the posts that follow.                   *)
C9_MissingInfoSkipsOneReference ==
    Rewrote =>
        /\ Len(run.posts) = Len(LimitPosts(post_catalog, run.limit))
        /\ \A i \in DOMAIN run.posts :
              LET post == post_catalog[i]
              IN  NonOverlapping(post) =>
                      /\ run.posts[i].content = OnePassFrom(post, 0, ExpectedUrls(post))
                      /\ \A a \in DOMAIN post.flickr_images :
                            ~HasUploadInfo(post, post.flickr_images[a].flickr_id) =>
                                HoldsAt(run.posts[i].content, post,
                                        post.flickr_images[a], post.flickr_images[a].url)

\* A post with one reference lacking upload info, handled before a reference
\* that has it, and a second post processed after it.
C9_Witness ==
    /\ Rewrote
    /\ Len(run.posts) = 2
    /\ LET post == post_catalog[1]
           imgs == SortedImages(post.flickr_images)
       IN  /\ Len(imgs) = 2
           /\ ~HasUploadInfo(post, imgs[1].flickr_id)
           /\ HasUploadInfo(post, imgs[2].flickr_id)
           /\ run.posts[1].content # post.content

----------------------------------------------------------------------------
(* What the properties of the other stages are stated with *)

\* The upload_info of a post, empty when the key is absent.
InfoOf(post) == IF "upload_info" \in DOMAIN post THEN post.upload_info ELSE <<>>

\* Every reference of every post of the catalog has its upload_info entry.
FullyRecorded(catalog) ==
    \A i \in DOMAIN catalog :
        /\ "flickr_images" \in DOMAIN catalog[i]
        /\ AllHaveInfo(catalog[i])

\* Every post of the catalog before the step is in the catalog after it.
PostsKept ==
    \A i \in DOMAIN post_catalog :
        \E j \in DOMAIN post_catalog' : post_catalog'[j].id = post_catalog[i].id

(* C4: upload_to_wp skips the posts listed in the exclusion memo: no media *)
(* upload is issued for such a post and no upload_info entry is added.     *)
C4_ExcludedPostsAreSkipped ==
    [][run'.cmd = "upload_to_wp" =>
         /\ \A k \in DOMAIN run'.uploaded : run'.uploaded[k].post \notin run'.excludes
         /\ \A i \in DOMAIN run'.posts :
               run'.posts[i].id \in run'.excludes =>
                   DOMAIN InfoOf(run'.posts[i]) = DOMAIN InfoOf(post_catalog[i])]_vars

C6_RerunAfterAbortRepeatsNoUpload ==
    [][(/\ run.cmd = "upload_to_wp" /\ run.aborted
        /\ run'.cmd = "upload_to_wp"
        /\ run'.limit = run.limit
        /\ run'.excludes = run.excludes
        /\ run'.already_uploaded = run.already_uploaded) =>
         \A a \in DOMAIN run.uploaded, b \in DOMAIN run'.uploaded :
             run.uploaded[a] # run'.uploaded[b]]_vars

(* C8 as stated: no run of process_posts, upload_to_wp (any --limit, the   *)
(* default catalog paths) or update_posts removes a post record from the   *)
(* post catalog.                                                           *)
C8_NoPostIsEverDeleted ==
    [][PostsKept]_vars

(* C8: no run of process_posts or update_posts removes a post record from  *)
(* the post catalog, nor does a run of upload_to_wp whose --limit is       *)
(* absent, 0 or at least the number of posts in the catalog.               *)
C8_PostsKeptUnlessLimitTruncates ==
    [][(run'.cmd = "upload_to_wp" =>
            (run'.limit = 0 \/ run'.limit >= Len(post_catalog))) => PostsKept]_vars

\* An upload run with --limit equal to the number of posts that uploaded
\* files and wrote the catalog of two posts back.
C8_Witness ==
    /\ run.cmd = "upload_to_wp"
    /\ ~run.aborted
    /\ run.uploaded # <<>>
    /\ Len(post_catalog) = 2
    /\ run.limit = Len(post_catalog)

(* C10: for every photo whose medium variant download_images stored, the   *)
(* medium file name upload_to_wp computes is the name download_images      *)
(* wrote, so no upload run fails on a medium file retrieval did fetch.     *)
C10_UploadReadsTheMediumFileRetrievalWrote ==
    \A k \in DOMAIN image_catalog :
        LET photo  == image_catalog[k]
            stored == DownloadPhoto(photo.id, photo.sizes)[2]
        IN  (stored # None /\ stored \in download_dir) =>
                /\ MediumFile(photo.id) = stored
                /\ ~(/\ run.cmd = "upload_to_wp"
                     /\ run.error = "FileNotFoundError"
                     /\ run.file = MediumFile(photo.id))

====
